---- MODULE Spec2Model ----
(***************************************************************************)
(* Configuration resolution and task/operation dispatch of ultralytics:    *)
(*   - get_config / check_config_mismatch  (yolo/configs/__init__.py)      *)
(*   - entrypoint, the CLI dispatcher      (yolo/configs/__init__.py)      *)
(*   - YOLO, the model facade              (yolo/engine/model.py)          *)
(*   - solutions_yaml_load                 (solutions/__init__.py)         *)
(* Five specifications share the module: Spec (one dispatch of             *)
(* entrypoint), SpecMerge (one call of get_config), SpecFacade (a sequence *)
(* of calls on one YOLO object), SpecHead (one call of                     *)
(* _guess_task_from_head) and SpecSolutions (calls of solutions_yaml_load).*)
(***************************************************************************)
EXTENDS Integers, Sequences, FiniteSets, TLC

(***************************************************************************)
(* Python values.  A value is a pair <<type, repr>>, so that the boolean   *)
(* False, the string 'False', None, 0 and '' stay five different values.   *)
(* A nested mapping is <<"dict", m>> with m a function from keys to values.*)
(***************************************************************************)
FalseV == <<"bool", "False">>
TrueV == <<"bool", "True">>
NoneV == <<"NoneType", "None">>
Str(s) == <<"str", s>>
IntV(s) == <<"int", s>>
DictV(m) == <<"dict", m>>

(***************************************************************************)
(* Python dicts are functions from keys (strings) to values.               *)
(***************************************************************************)
EmptyDict == [k \in {} |-> NoneV]
Put(d, k, v) == [x \in (DOMAIN d) \cup {k} |-> IF x = k THEN v ELSE d[x]]
Without(d, ks) == [x \in (DOMAIN d) \ ks |-> d[x]]

(***************************************************************************)
(* Strings are atoms for TLC; Chars gives the characters of the option     *)
(* names the model uses and Ord their code points, which is what difflib   *)
(* and Python's string comparison work on.                                 *)
(***************************************************************************)
Chars(w) ==
    CASE w = "task" -> <<"t", "a", "s", "k">>
      [] w = "mode" -> <<"m", "o", "d", "e">>
      [] w = "show" -> <<"s", "h", "o", "w">>
      [] w = "data" -> <<"d", "a", "t", "a">>
      [] w = "seed" -> <<"s", "e", "e", "d">>
      [] w = "save" -> <<"s", "a", "v", "e">>
      [] w = "save_txt" -> <<"s", "a", "v", "e", "_", "t", "x", "t">>
      [] w = "save_conf" -> <<"s", "a", "v", "e", "_", "c", "o", "n", "f">>
      [] w = "save_crop" -> <<"s", "a", "v", "e", "_", "c", "r", "o", "p">>
      [] w = "save_json" -> <<"s", "a", "v", "e", "_", "j", "s", "o", "n">>
      [] w = "save_cnf" -> <<"s", "a", "v", "e", "_", "c", "n", "f">>
      [] w = "shw" -> <<"s", "h", "w">>
      [] w = "sed" -> <<"s", "e", "d">>
      [] w = "imgs" -> <<"i", "m", "g", "s">>
      [] w = "cfg" -> <<"c", "f", "g">>
      [] w = "name" -> <<"n", "a", "m", "e">>
      [] w = "classify" -> <<"c", "l", "a", "s", "s", "i", "f", "y">>
      [] w = "classifier" -> <<"c", "l", "a", "s", "s", "i", "f", "i", "e", "r">>
      [] w = "cls" -> <<"c", "l", "s">>
      [] w = "fc" -> <<"f", "c">>
      [] w = "detect" -> <<"d", "e", "t", "e", "c", "t">>
      [] w = "segment" -> <<"s", "e", "g", "m", "e", "n", "t">>
      [] w = "Detect" -> <<"D", "e", "t", "e", "c", "t">>
      [] w = "Segment" -> <<"S", "e", "g", "m", "e", "n", "t">>
      [] w = "Classify" -> <<"C", "l", "a", "s", "s", "i", "f", "y">>
      [] w = "Conv" -> <<"C", "o", "n", "v">>
      [] w = "" -> <<>>

Ord(c) ==
    CASE c = "_" -> 95 [] c = "a" -> 97 [] c = "c" -> 99 [] c = "d" -> 100
      [] c = "e" -> 101 [] c = "f" -> 102 [] c = "g" -> 103 [] c = "h" -> 104
      [] c = "i" -> 105 [] c = "j" -> 106 [] c = "k" -> 107 [] c = "m" -> 109
      [] c = "n" -> 110 [] c = "o" -> 111 [] c = "p" -> 112 [] c = "r" -> 114
      [] c = "s" -> 115 [] c = "t" -> 116 [] c = "v" -> 118 [] c = "w" -> 119
      [] c = "x" -> 120

Min(x, y) == IF x <= y THEN x ELSE y

\* Python's str ordering: lexicographic on code points, a proper prefix first.
RECURSIVE SeqLess(_, _)
SeqLess(s, t) ==
    IF t = <<>> THEN FALSE
    ELSE IF s = <<>> THEN TRUE
    ELSE IF Ord(Head(s)) # Ord(Head(t)) THEN Ord(Head(s)) < Ord(Head(t))
    ELSE SeqLess(Tail(s), Tail(t))

StrLess(x, y) == SeqLess(Chars(x), Chars(y))

(***************************************************************************)
(* difflib.SequenceMatcher (no junk): the longest matching block, the      *)
(* earliest in a and then the earliest in b among the longest ones; the    *)
(* number of matches is its size plus the matches left and right of it.    *)
(***************************************************************************)
\* The length of the longest common run of s from p and t from q.
RECURSIVE CommonRun(_, _, _, _)
CommonRun(s, t, p, q) ==
    IF p > Len(s) \/ q > Len(t) \/ s[p] # t[q] THEN 0
    ELSE 1 + CommonRun(s, t, p + 1, q + 1)

\* <<i, j, k>>: s[i..i+k-1] = t[j..j+k-1], <<1, 1, 0>> when nothing matches.
find_longest_match(s, t) ==
    LET runs == {<<b[1], b[2], CommonRun(s, t, b[1], b[2])>> :
                    b \in (1..Len(s)) \X (1..Len(t))}
        blocks == {b \in runs : b[3] > 0}
    IN  IF blocks = {} THEN <<1, 1, 0>>
        ELSE CHOOSE b \in blocks : \A u \in blocks :
                \/ u[3] < b[3]
                \/ u[3] = b[3] /\ u[1] > b[1]
                \/ u[3] = b[3] /\ u[1] = b[1] /\ u[2] >= b[2]

RECURSIVE Matches(_, _)
Matches(s, t) ==
    LET b == find_longest_match(s, t)
    IN  IF b[3] = 0 THEN 0
        ELSE b[3]
             + Matches(SubSeq(s, 1, b[1] - 1), SubSeq(t, 1, b[2] - 1))
             + Matches(SubSeq(s, b[1] + b[3], Len(s)), SubSeq(t, b[2] + b[3], Len(t)))

\* ratio() = 2.0 * matches / (len(a) + len(b)), 1.0 for two empty strings, kept
\* as the fraction <<numerator, denominator>>.
ratio(x, word) ==
    LET s == Chars(x)
        t == Chars(word)
    IN  IF Len(s) + Len(t) = 0 THEN <<1, 1>> ELSE <<2 * Matches(s, t), Len(s) + Len(t)>>

\* The arguments of get_close_matches at its one call: n = 3, cutoff = 0.6.
MatchesN == 3
CutoffNum == 6
CutoffDen == 10

\* (score, x) > (score2, y), the order heapq.nlargest sorts the candidates by;
\* a candidate is the pair <<x, ratio of x>>.
Better(c, d) ==
    \/ c[2][1] * d[2][2] > d[2][1] * c[2][2]
    \/ c[2][1] * d[2][2] = d[2][1] * c[2][2] /\ StrLess(d[1], c[1])

RECURSIVE NLargest(_, _)
NLargest(n, cands) ==
    IF n <= 0 \/ cands = {} THEN <<>>
    ELSE LET best == CHOOSE c \in cands : \A d \in cands \ {c} : Better(c, d)
         IN  <<best[1]>> \o NLargest(n - 1, cands \ {best})

\* get_close_matches(word, possibilities, n, cutoff): the n best of the
\* possibilities whose ratio reaches the cutoff, best first.  (quick_ratio and
\* real_quick_ratio are upper bounds of ratio and filter nothing more.)
get_close_matches(word, possibilities, n) ==
    LET scored == {<<x, ratio(x, word)>> : x \in possibilities}
    IN  NLargest(n, {c \in scored : c[2][1] * CutoffDen >= CutoffNum * c[2][2]})

(***************************************************************************)
(* check_config_mismatch(base, custom) and get_config(config, overrides).  *)
(***************************************************************************)
\* Mutant: base and custom swapped in the comprehension.
Mismatched_Swapped(base, custom) == {x \in DOMAIN base : x \notin DOMAIN custom}

\* mismatched = [x for x in custom if x not in base]
Mismatched(base, custom) == {x \in DOMAIN custom : x \notin DOMAIN base}

\* The orders in which a Python set of keys can be iterated.
Orderings(S) ==
    {o \in [1..Cardinality(S) -> S] : \A p, q \in 1..Cardinality(S) : o[p] = o[q] => p = q}

\* for option in mismatched: LOGGER.info(f"{option} is not a valid key. Similar
\* keys: {get_close_matches(option, base, 3, 0.6)}"), for the iteration order o.
Diagnostics(base, o) ==
    [p \in DOMAIN o |->
        [option |-> o[p], similar |-> get_close_matches(o[p], DOMAIN base, MatchesN)]]

\* Mutant: {**overrides, **config}, the defaults win.
Merged_PreferConfig(config, custom) ==
    [k \in (DOMAIN config) \cup (DOMAIN custom) |->
        IF k \in DOMAIN config THEN config[k] ELSE custom[k]]

\* merged = {**config, **overrides}
Merged(config, custom) ==
    [k \in (DOMAIN config) \cup (DOMAIN custom) |->
        IF k \in DOMAIN custom THEN custom[k] ELSE config[k]]

\* Mutant: the merge written in place, config.update(overrides).
ConfigAfterMerge_Update(config, custom) == Merged(config, custom)

\* The dict passed as config once get_config has returned: the merge of line
\* 72 builds a new dict from the two it unpacks and writes to neither.
ConfigAfterMerge(config, custom) == config

(***************************************************************************)
(* entrypoint(): the CLI dispatcher.  The argument list is an ordered      *)
(* sequence of string tokens; a token is kept as the list of its parts     *)
(* between '=' signs (a.split('=')), so 'imgsz=320' is <<"imgsz", "320">>, *)
(* 'train' is <<"train">> and 'a=b=c' is <<"a", "b", "c">>.                *)
(***************************************************************************)
tasks == {"detect", "segment", "classify"}
modes == {"train", "val", "predict", "export"}
special_modes == {"help", "checks", "version", "settings", "copy-config"}

\* Bound: the number of tokens of one dispatch.  The list is not empty: the
\* source sets args = ['train'], and the usage text requires a MODE.  (The guard
\* len(sys.argv) == -1 before it is never true.)
MaxArgs == 3

\* The tokens a dispatch draws its arguments from.
Tokens ==
    {<<t>> : t \in tasks \cup modes \cup special_modes}
    \cup {<<"show">>, <<"data">>, <<"seed">>, <<"name">>, <<"imgs">>}
    \cup {<<"task", "classify">>, <<"task", "pose">>, <<"mode", "export">>,
          <<"mode", "test">>, <<"show", "False">>, <<"data", "coco128.yaml">>,
          <<"seed", "1">>, <<"imgs", "320">>, <<"", "1">>, <<"seed", "1", "2">>}
    \cup {<<"cfg", "custom.yaml">>, <<"cfg", "flags.yaml">>, <<"cfg", "typo.yaml">>,
          <<"cfg", "missing.yaml">>, <<"cfg", "x", "custom.yaml">>}

\* The documents yaml_load can read, by path; any other path does not exist.
Files ==
    [p \in {"custom.yaml", "flags.yaml", "typo.yaml"} |->
        CASE p = "custom.yaml" ->
                [k \in {"task", "mode", "cfg", "data"} |->
                    CASE k = "task" -> Str("segment")
                      [] k = "mode" -> Str("val")
                      [] k = "cfg" -> Str("custom.yaml")
                      [] k = "data" -> Str("coco128.yaml")]
          [] p = "flags.yaml" ->
                [k \in {"show", "seed"} |-> IF k = "show" THEN TrueV ELSE IntV("1")]
          [] p = "typo.yaml" ->
                [k \in {"shw", "sed", "mode"} |->
                    IF k = "mode" THEN Str("predict") ELSE IntV("1")]]

\* yaml_load(DEFAULT_CONFIG): the packaged defaults, an input of the dispatch.
\* Every defaults document has task and mode.
DefaultDocs ==
    {[k \in {"task", "mode", "data", "show", "seed", "name"} |->
        CASE k = "task" -> Str("detect")
          [] k = "mode" -> Str("train")
          [] k = "data" -> NoneV
          [] k = "show" -> FalseV
          [] k = "seed" -> IntV("0")
          [] k = "name" -> Str("")],
     [k \in {"task", "mode", "data", "show", "seed", "name"} |->
        CASE k = "task" -> Str("segment")
          [] k = "mode" -> Str("predict")
          [] k = "data" -> Str("coco128.yaml")
          [] k = "show" -> TrueV
          [] k = "seed" -> IntV("0")
          [] k = "name" -> NoneV]}

VARIABLES
    nargs,      \* len(args)
    i,          \* number of tokens the for loop has taken
    a,          \* the loop variable: the current token
    pc,         \* position in entrypoint
    overrides,  \* the override set
    defaults,   \* the defaults document
    cfg,        \* the merged configuration of the last get_config, or NoneV
    module,     \* the task module looked up last, or "None"
    func,       \* the operation looked up last, or "None"
    outcome,    \* how the dispatch ended, [kind |-> "running"] while it runs
    special,    \* the special command that ran, or "None"
    diag,       \* the lines check_config_mismatch logged, in order
    nMerge,     \* history: calls of get_config so far
    nInvoke,    \* history: operations invoked so far
    invokedAt,  \* history: value of i at the last invocation
    prev,       \* history: the override set before the current token was taken
    \* one call of get_config(config, overrides)
    gc_config,     \* its config argument: DictV(mapping), or Str(path of a document)
    gc_overrides,  \* its overrides argument: DictV(mapping), or NoneV
    gc_pc,         \* position in get_config
    gc_merged,     \* the namespace it returns, or NoneV
    \* one YOLO object and the calls made on it
    self,       \* the fields of the object
    last,       \* the last call: method, arguments and how it ended
    ncalls,     \* number of calls made so far
    default_config,  \* the document at DEFAULT_CONFIG that the facade reads
    validator,  \* the validator the last call constructed and called, or NoneV
    \* one call of the static method _guess_task_from_head(head)
    gh_head,    \* its argument, a sequence of characters
    gh_task,    \* the task it returns, or NoneV
    gh_pc,      \* position: "call", "returned" or "raised"
    \* calls of solutions_yaml_load(kwargs)
    sl_defaults,  \* the document at solutions/cfg/default.yaml
    sl_calls      \* history: the calls made, each with its kwargs and its result

\* The dispatcher's variables but diag, which check_config_mismatch writes.
dispatchVars == <<nargs, i, a, pc, overrides, defaults, cfg, module, func, outcome,
                  special, nMerge, nInvoke, invokedAt, prev>>
mergeVars == <<gc_config, gc_overrides, gc_pc, gc_merged>>
facadeVars == <<self, last, ncalls, default_config, validator>>
headVars == <<gh_head, gh_task, gh_pc>>
solutionsVars == <<sl_defaults, sl_calls>>
vars == <<dispatchVars, diag, mergeVars, facadeVars, headVars, solutionsVars>>

\* The texts of the two syntax errors of the token loop.
MissingValueMsg == "is a valid YOLO argument but is missing an '=' sign"
UnrecognizedMsg == "is not a valid YOLO argument"

Running == [kind |-> "running", msg |-> "", help |-> FALSE]
Returned == [kind |-> "returned", msg |-> "", help |-> FALSE]
\* raise SyntaxError(f"... {msg} ...\n{CLI_HELP_MSG}")
SyntaxErr(m) == [kind |-> "SyntaxError", msg |-> m, help |-> TRUE]
Raised(k) == [kind |-> k, msg |-> "", help |-> FALSE]

\* Python truthiness of the values the model uses.
Falsy(v) == v \in {FalseV, NoneV, IntV("0"), Str("")}

\* Mutant: the flag test written `not defaults[a]` instead of `defaults[a] is False`.
TokenClass_Falsy(tok, dflt) ==
    IF Len(tok) >= 2 THEN (IF tok[1] = "cfg" THEN "cfg" ELSE "keyvalue")
    ELSE IF tok[1] \in tasks THEN "task"
    ELSE IF tok[1] \in modes THEN "mode"
    ELSE IF tok[1] \in special_modes THEN "special"
    ELSE IF tok[1] \in DOMAIN dflt /\ Falsy(dflt[tok[1]]) THEN "flag"
    ELSE IF tok[1] \in DOMAIN dflt THEN "missing_value"
    ELSE "unrecognized"

\* Mutant: the `elif a in defaults` branch left out.
TokenClass_NoMissingValue(tok, dflt) ==
    IF Len(tok) >= 2 THEN (IF tok[1] = "cfg" THEN "cfg" ELSE "keyvalue")
    ELSE IF tok[1] \in tasks THEN "task"
    ELSE IF tok[1] \in modes THEN "mode"
    ELSE IF tok[1] \in special_modes THEN "special"
    ELSE IF tok[1] \in DOMAIN dflt /\ dflt[tok[1]] = FalseV THEN "flag"
    ELSE "unrecognized"

\* The branch of the if/elif chain of the loop body that token tok takes.
TokenClass(tok, dflt) ==
    IF Len(tok) >= 2 THEN (IF tok[1] = "cfg" THEN "cfg" ELSE "keyvalue")
    ELSE IF tok[1] \in tasks THEN "task"
    ELSE IF tok[1] \in modes THEN "mode"
    ELSE IF tok[1] \in special_modes THEN "special"
    ELSE IF tok[1] \in DOMAIN dflt /\ dflt[tok[1]] = FalseV THEN "flag"
    ELSE IF tok[1] \in DOMAIN dflt THEN "missing_value"
    ELSE "unrecognized"

\* The machines a specification does not run stay in these states.
DispatchIdle ==
    /\ nargs = 0 /\ i = 0 /\ a = <<>> /\ pc = "idle" /\ overrides = EmptyDict
    /\ defaults = EmptyDict /\ cfg = NoneV /\ module = "None" /\ func = "None"
    /\ outcome = Running /\ special = "None" /\ nMerge = 0 /\ nInvoke = 0
    /\ invokedAt = 0 /\ prev = EmptyDict

MergeIdle ==
    /\ gc_config = NoneV /\ gc_overrides = NoneV /\ gc_pc = "idle"
    /\ gc_merged = NoneV

HeadIdle ==
    /\ gh_head = <<>> /\ gh_task = NoneV /\ gh_pc = "idle"

SolutionsIdle ==
    /\ sl_defaults = EmptyDict /\ sl_calls = <<>>

NoCall == [method |-> "None", args |-> <<>>, result |-> "None"]

FacadeIdle ==
    /\ self = [f \in {"type"} |-> NoneV] /\ last = NoCall /\ ncalls = 0
    /\ default_config = EmptyDict /\ validator = NoneV

Init ==
    /\ MergeIdle
    /\ FacadeIdle
    /\ HeadIdle
    /\ SolutionsIdle
    /\ nargs \in 1..MaxArgs
    /\ defaults \in DefaultDocs
    /\ i = 0
    /\ a = <<>>
    /\ pc = "loop"
    /\ overrides = EmptyDict
    /\ cfg = NoneV
    /\ module = "None"
    /\ func = "None"
    /\ outcome = Running
    /\ special = "None"
    /\ diag = <<>>
    /\ nMerge = 0
    /\ nInvoke = 0
    /\ invokedAt = 0
    /\ prev = EmptyDict

\* The for loop takes token tok of class c.
Take(tok, c) ==
    /\ pc = "loop"
    /\ i < nargs
    /\ TokenClass(tok, defaults) = c
    /\ i' = i + 1
    /\ a' = tok
    /\ prev' = overrides
    /\ UNCHANGED <<headVars, solutionsVars, mergeVars, facadeVars>>

Stop(o) ==
    /\ pc' = "done"
    /\ outcome' = o

\* Mutant: the document is laid over the overrides accumulated so far.
CfgOverrides_KeepEarlier(old, doc) == Merged(old, Without(doc, {"cfg"}))

\* overrides = {k: v for k, v in yaml_load(custom_config).items() if k not in {'cfg'}}
\* (an assignment: the overrides accumulated so far, old, are dropped)
CfgOverrides(old, doc) == Without(doc, {"cfg"})

\* a.startswith('cfg='): custom_config = Path(a.split('=')[-1])
ClassifyCfg ==
    \E tok \in Tokens :
        /\ Take(tok, "cfg")
        /\ LET custom_config == tok[Len(tok)]
           IN  IF custom_config \in DOMAIN Files
               THEN /\ overrides' = CfgOverrides(overrides, Files[custom_config])
                    /\ pc' = "merge"
                    /\ UNCHANGED outcome
               ELSE /\ Stop(Raised("FileNotFoundError"))
                    /\ UNCHANGED overrides
        /\ UNCHANGED <<nargs, defaults, cfg, module, func, special, diag, nMerge,
                       nInvoke, invokedAt>>

\* k, v = a.split('='); overrides[k] = v
ClassifyKeyValue ==
    \E tok \in Tokens :
        /\ Take(tok, "keyvalue")
        /\ IF Len(tok) = 2
           THEN /\ overrides' = Put(overrides, tok[1], Str(tok[2]))
                /\ pc' = "merge"
                /\ UNCHANGED outcome
           ELSE /\ Stop(Raised("ValueError"))
                /\ UNCHANGED overrides
        /\ UNCHANGED <<nargs, defaults, cfg, module, func, special, diag, nMerge,
                       nInvoke, invokedAt>>

\* elif a in tasks: overrides['task'] = a
ClassifyTask ==
    \E tok \in Tokens :
        /\ Take(tok, "task")
        /\ overrides' = Put(overrides, "task", Str(tok[1]))
        /\ pc' = "merge"
        /\ UNCHANGED <<nargs, defaults, cfg, module, func, outcome, special, diag,
                       nMerge, nInvoke, invokedAt>>

\* elif a in modes: overrides['mode'] = a
ClassifyMode ==
    \E tok \in Tokens :
        /\ Take(tok, "mode")
        /\ overrides' = Put(overrides, "mode", Str(tok[1]))
        /\ pc' = "merge"
        /\ UNCHANGED <<nargs, defaults, cfg, module, func, outcome, special, diag,
                       nMerge, nInvoke, invokedAt>>

\* elif a in special_modes: special_modes[a](); return
ClassifySpecial ==
    \E tok \in Tokens :
        /\ Take(tok, "special")
        /\ special' = tok[1]
        /\ Stop(Returned)
        /\ UNCHANGED <<nargs, defaults, overrides, cfg, module, func, diag, nMerge,
                       nInvoke, invokedAt>>

\* The value a bare flag is set to.
FlagValue == TrueV

\* elif a in defaults and defaults[a] is False: overrides[a] = True
ClassifyFlag ==
    \E tok \in Tokens :
        /\ Take(tok, "flag")
        /\ overrides' = Put(overrides, tok[1], FlagValue)
        /\ pc' = "merge"
        /\ UNCHANGED <<nargs, defaults, cfg, module, func, outcome, special, diag,
                       nMerge, nInvoke, invokedAt>>

\* elif a in defaults: raise SyntaxError("... missing an '=' sign ...")
ClassifyMissingValue ==
    \E tok \in Tokens :
        /\ Take(tok, "missing_value")
        /\ Stop(SyntaxErr(MissingValueMsg))
        /\ UNCHANGED <<nargs, defaults, overrides, cfg, module, func, special, diag,
                       nMerge, nInvoke, invokedAt>>

\* else: raise SyntaxError("... is not a valid YOLO argument ...")
ClassifyUnrecognized ==
    \E tok \in Tokens :
        /\ Take(tok, "unrecognized")
        /\ Stop(SyntaxErr(UnrecognizedMsg))
        /\ UNCHANGED <<nargs, defaults, overrides, cfg, module, func, special, diag,
                       nMerge, nInvoke, invokedAt>>

\* cfg = get_config(defaults, overrides), in the loop body: check_config_mismatch
\* logs one line per mismatched key and exits the process if there is one.
MergeConfig ==
    /\ pc = "merge"
    /\ nMerge' = nMerge + 1
    /\ \E o \in Orderings(Mismatched(defaults, overrides)) :
            diag' = diag \o Diagnostics(defaults, o)
    /\ IF Mismatched(defaults, overrides) # {}
       THEN /\ Stop(Raised("SystemExit"))
            /\ UNCHANGED <<cfg, defaults>>
       ELSE /\ cfg' = DictV(Merged(defaults, overrides))
            /\ defaults' = ConfigAfterMerge(defaults, overrides)
            /\ pc' = "module"
            /\ UNCHANGED outcome
    /\ UNCHANGED <<headVars, solutionsVars, mergeVars, facadeVars, prev, nargs, i, a,
                   overrides, module, func, special, nInvoke, invokedAt>>

\* {"detect": yolo.v8.detect, "segment": ..., "classify": ...}.get(cfg.task)
ModuleOf(task) ==
    IF task \in {Str(t) : t \in tasks} THEN task[2] ELSE "None"

\* {"train": module.train, "val": module.val, "predict": module.predict,
\*  "export": yolo.engine.exporter.export}.get(cfg.mode)
FuncOf(mod, mode) ==
    IF mode = Str("export") THEN <<"yolo.engine.exporter", "export">>
    ELSE IF mode \in {Str(m) : m \in modes} THEN <<mod, mode[2]>>
    ELSE "None"

ResolveModule ==
    /\ pc = "module"
    /\ module' = ModuleOf(cfg[2]["task"])
    /\ IF module' = "None"
       THEN Stop(SyntaxErr("task is invalid"))
       ELSE pc' = "func" /\ UNCHANGED outcome
    /\ UNCHANGED <<headVars, solutionsVars, mergeVars, facadeVars, prev, nargs, i, a, overrides, defaults, cfg, func, special, diag, nMerge,
                   nInvoke, invokedAt>>

ResolveFunc ==
    /\ pc = "func"
    /\ func' = FuncOf(module, cfg[2]["mode"])
    /\ IF func' = "None"
       THEN Stop(SyntaxErr("mode is invalid"))
       ELSE pc' = "invoke" /\ UNCHANGED outcome
    /\ UNCHANGED <<headVars, solutionsVars, mergeVars, facadeVars, prev, nargs, i, a, overrides, defaults, cfg, module, special, diag, nMerge,
                   nInvoke, invokedAt>>

\* func(cfg): the blocking operation, which returns to the loop.
Invoke ==
    /\ pc = "invoke"
    /\ nInvoke' = nInvoke + 1
    /\ invokedAt' = i
    /\ pc' = "loop"
    /\ UNCHANGED <<headVars, solutionsVars, mergeVars, facadeVars, prev, nargs, i, a, overrides, defaults, cfg, module, func, outcome,
                   special, diag, nMerge>>

\* The for loop is exhausted: entrypoint returns.
LoopEnd ==
    /\ pc = "loop"
    /\ i = nargs
    /\ Stop(Returned)
    /\ UNCHANGED <<headVars, solutionsVars, mergeVars, facadeVars, prev, nargs, i, a, overrides, defaults, cfg, module, func, special, diag,
                   nMerge, nInvoke, invokedAt>>

Next ==
    \/ ClassifyCfg
    \/ ClassifyKeyValue
    \/ ClassifyTask
    \/ ClassifyMode
    \/ ClassifySpecial
    \/ ClassifyFlag
    \/ ClassifyMissingValue
    \/ ClassifyUnrecognized
    \/ MergeConfig
    \/ ResolveModule
    \/ ResolveFunc
    \/ Invoke
    \/ LoopEnd

Spec == Init /\ [][Next]_vars

(***************************************************************************)
(* Specification SpecMerge: one call get_config(config, overrides), for    *)
(* every pair of arguments drawn from the sets below.                      *)
(***************************************************************************)
\* Bound: the number of keys of the overrides argument.
MaxOverrideKeys == 3

\* The default of each option of the base configurations; show holds a nested
\* mapping.
BaseValue(k) ==
    CASE k = "show" -> DictV([n \in {"labels", "conf"} |-> TrueV])
      [] k = "save" -> TrueV
      [] OTHER -> FalseV

BaseKeys == {"save", "save_txt", "save_conf", "save_crop", "save_json", "show"}

\* The config arguments: every base configuration over a subset of BaseKeys.
ConfigArgs == {[k \in S |-> BaseValue(k)] : S \in SUBSET BaseKeys}

\* The documents get_config can load when config is a path.
ConfigFiles == [p \in {"default.yaml"} |-> [k \in BaseKeys |-> BaseValue(k)]]

OverrideKeys == {"save", "show", "save_conf", "save_cnf", "shw"}
OverrideValues == {Str("x"), DictV([n \in {"labels"} |-> FalseV])}

\* The overrides arguments: every mapping of at most MaxOverrideKeys keys.
OverrideArgs ==
    UNION {[S -> OverrideValues] :
            S \in {T \in SUBSET OverrideKeys : Cardinality(T) <= MaxOverrideKeys}}

InitMerge ==
    /\ DispatchIdle
    /\ FacadeIdle
    /\ HeadIdle
    /\ SolutionsIdle
    /\ diag = <<>>
    /\ gc_pc = "enter"
    /\ gc_merged = NoneV
    /\ \E c \in ConfigArgs, o \in OverrideArgs :
        \/ gc_config = DictV(c) /\ gc_overrides = DictV(o)
        \/ gc_config = Str("default.yaml") /\ gc_overrides = DictV(o)
        \/ gc_config = DictV(c) /\ gc_overrides = NoneV

\* isinstance(v, dict)
IsDict(v) == v[1] = "dict"

\* assert isinstance(overrides, dict); if isinstance(config, (str, Path)):
\* config = yaml_load(config)
GetConfigEnter ==
    /\ gc_pc = "enter"
    /\ IF ~IsDict(gc_overrides)
       THEN gc_pc' = "AssertionError" /\ UNCHANGED gc_config
       ELSE /\ gc_pc' = "check"
            /\ gc_config' = IF IsDict(gc_config) THEN gc_config
                             ELSE DictV(ConfigFiles[gc_config[2]])
    /\ UNCHANGED <<headVars, solutionsVars, dispatchVars, diag, gc_overrides, gc_merged, facadeVars>>

\* check_config_mismatch(config, overrides): one line per mismatched option,
\* then sys.exit() if there is any.
CheckConfigMismatch ==
    /\ gc_pc = "check"
    /\ \E o \in Orderings(Mismatched(gc_config[2], gc_overrides[2])) :
            diag' = diag \o Diagnostics(gc_config[2], o)
    /\ gc_pc' = IF Mismatched(gc_config[2], gc_overrides[2]) # {} THEN "SystemExit"
                 ELSE "merge"
    /\ UNCHANGED <<headVars, solutionsVars, dispatchVars, gc_config, gc_overrides, gc_merged, facadeVars>>

\* merged = {**config, **overrides}; return types.SimpleNamespace(**merged)
GetConfigReturn ==
    /\ gc_pc = "merge"
    /\ gc_merged' = DictV(Merged(gc_config[2], gc_overrides[2]))
    /\ gc_pc' = "returned"
    /\ UNCHANGED <<headVars, solutionsVars, dispatchVars, diag, gc_config, gc_overrides, facadeVars>>

NextMerge ==
    \/ GetConfigEnter
    \/ CheckConfigMismatch
    \/ GetConfigReturn

SpecMerge == InitMerge /\ [][NextMerge]_vars

(***************************************************************************)
(* Specification SpecFacade: one YOLO object and a sequence of calls of    *)
(* its methods; a call that raises leaves the object to the caller, who    *)
(* may call again.                                                         *)
(***************************************************************************)
\* Bound: the number of method calls on the object.
MaxCalls == 3

\* map head: [model, trainer, validator, predictor]; a class literal
\* 'yolo.TYPE.detect.DetectionTrainer' is kept as its dotted parts.
MODEL_MAP ==
    [t \in {"classify", "detect", "segment"} |->
        CASE t = "classify" ->
                <<<<"class", "ClassificationModel">>,
                  <<"yolo", "TYPE", "classify", "ClassificationTrainer">>,
                  <<"yolo", "TYPE", "classify", "ClassificationValidator">>,
                  <<"yolo", "TYPE", "classify", "ClassificationPredictor">> >>
          [] t = "detect" ->
                <<<<"class", "DetectionModel">>,
                  <<"yolo", "TYPE", "detect", "DetectionTrainer">>,
                  <<"yolo", "TYPE", "detect", "DetectionValidator">>,
                  <<"yolo", "TYPE", "detect", "DetectionPredictor">> >>
          [] t = "segment" ->
                <<<<"class", "SegmentationModel">>,
                  <<"yolo", "TYPE", "segment", "SegmentationTrainer">>,
                  <<"yolo", "TYPE", "segment", "SegmentationValidator">>,
                  <<"yolo", "TYPE", "segment", "SegmentationPredictor">> >>]

\* str.lower() on the task names the model uses (resume's task.lower()).
Lower(s) ==
    CASE s = "Detect" -> "detect"
      [] s = "DETECT" -> "detect"
      [] s = "Segment" -> "segment"
      [] s = "Classify" -> "classify"
      [] s = "Conv" -> "conv"
      [] s = "Pose" -> "pose"
      [] OTHER -> s

\* eval(lit.replace("TYPE", f"{self.type}")): the class the literal names.
EvalLiteral(lit, type) == [p \in DOMAIN lit |-> IF lit[p] = "TYPE" THEN type ELSE lit[p]]

\* _guess_ops_from_task(task), for a task that is a key of MODEL_MAP.
\* (type is always "v8" here; a literal that names no class is not modelled.)
_guess_ops_from_task(type, task) ==
    <<MODEL_MAP[task][1], EvalLiteral(MODEL_MAP[task][2], type),
      EvalLiteral(MODEL_MAP[task][3], type), EvalLiteral(MODEL_MAP[task][4], type)>>

\* str.lower() on one character: the cased ASCII letters; every other
\* character the model uses is left as it is.
LowerChar(c) ==
    CASE c = "A" -> "a" [] c = "B" -> "b" [] c = "C" -> "c"
      [] c = "D" -> "d" [] c = "E" -> "e" [] c = "F" -> "f"
      [] c = "G" -> "g" [] c = "H" -> "h" [] c = "I" -> "i"
      [] c = "J" -> "j" [] c = "K" -> "k" [] c = "L" -> "l"
      [] c = "M" -> "m" [] c = "N" -> "n" [] c = "O" -> "o"
      [] c = "P" -> "p" [] c = "Q" -> "q" [] c = "R" -> "r"
      [] c = "S" -> "s" [] c = "T" -> "t" [] c = "U" -> "u"
      [] c = "V" -> "v" [] c = "W" -> "w" [] c = "X" -> "x"
      [] c = "Y" -> "y" [] c = "Z" -> "z"
      [] OTHER -> c

\* str.lower() on a string given as its sequence of characters.
lower(cs) == [p \in DOMAIN cs |-> LowerChar(cs[p])]

\* Mutant: the head compared without .lower().
_guess_task_from_head_CaseSensitive(head) ==
    LET t1 == IF head \in {Chars("classify"), Chars("classifier"), Chars("cls"), Chars("fc")}
              THEN Str("classify") ELSE NoneV
        t2 == IF head \in {Chars("detect")} THEN Str("detect") ELSE t1
        t3 == IF head \in {Chars("segment")} THEN Str("segment") ELSE t2
    IN  t3

\* _guess_task_from_head(head), head a sequence of characters: NoneV stands
\* for the raised Exception.
_guess_task_from_head(head) ==
    LET t1 == IF lower(head) \in {Chars("classify"), Chars("classifier"), Chars("cls"),
                                  Chars("fc")}
              THEN Str("classify") ELSE NoneV
        t2 == IF lower(head) \in {Chars("detect")} THEN Str("detect") ELSE t1
        t3 == IF lower(head) \in {Chars("segment")} THEN Str("segment") ELSE t2
    IN  t3

\* The model definitions new() can read: cfg["head"][-1][-2] of each document.
ModelFiles ==
    [p \in {"yolov8n.yaml", "yolov8n-seg.yaml", "yolov8n-cls.yaml", "backbone.yaml"} |->
        CASE p = "yolov8n.yaml" -> "Detect"
          [] p = "yolov8n-seg.yaml" -> "Segment"
          [] p = "yolov8n-cls.yaml" -> "Classify"
          [] p = "backbone.yaml" -> "Conv"]

\* The checkpoints torch.load can read: ckpt["train_args"]["task"] of each.
Ckpts ==
    [p \in {"det.pt", "seg.pt", "Det.pt", "pose.pt"} |->
        CASE p = "det.pt" -> "detect"
          [] p = "seg.pt" -> "segment"
          [] p = "Det.pt" -> "Detect"
          [] p = "pose.pt" -> "pose"]

\* Arguments the calls are made with.
CfgPaths == DOMAIN ModelFiles \cup {"missing.yaml"}
WeightPaths == DOMAIN Ckpts \cup {"missing.pt"}
TaskArgs == {NoneV, Str(""), Str("detect"), Str("segment"), Str("Segment"), Str("pose")}
ModelArgs == {NoneV} \cup {Str(p) : p \in {"det.pt", "seg.pt", "Det.pt", "pose.pt", "missing.pt"}}

\* YOLO.__init__(type="v8")
InitFacade ==
    /\ DispatchIdle
    /\ MergeIdle
    /\ HeadIdle
    /\ SolutionsIdle
    /\ diag = <<>>
    /\ self = [type |-> Str("v8"), ModelClass |-> NoneV, TrainerClass |-> NoneV,
               ValidatorClass |-> NoneV, PredictorClass |-> NoneV, model |-> NoneV,
               trainer |-> NoneV, task |-> NoneV, ckpt |-> NoneV]
    /\ last = NoCall
    /\ ncalls = 0
    /\ default_config \in DefaultDocs
    /\ validator = NoneV

\* A call of method m with arguments args ends with result r, having
\* constructed and called validator v (NoneV when it constructed none).
CalledWith(m, args, r, v) ==
    /\ ncalls < MaxCalls
    /\ ncalls' = ncalls + 1
    /\ last' = [method |-> m, args |-> args, result |-> r]
    /\ validator' = v
    /\ UNCHANGED <<headVars, solutionsVars, dispatchVars, diag, mergeVars, default_config>>

Called(m, args, r) == CalledWith(m, args, r, NoneV)

\* self.ModelClass, self.TrainerClass, self.ValidatorClass, self.PredictorClass = ops
WithOps(obj, ops) ==
    [obj EXCEPT !.ModelClass = ops[1], !.TrainerClass = ops[2],
                !.ValidatorClass = ops[3], !.PredictorClass = ops[4]]

\* YOLO.new(cfg)
New ==
    \E path \in CfgPaths :
        IF path \notin DOMAIN ModelFiles
        THEN Called("new", <<Str(path)>>, "FileNotFoundError") /\ UNCHANGED self
        ELSE LET task == _guess_task_from_head(Chars(ModelFiles[path]))
             IN  IF task = NoneV
                 THEN /\ Called("new", <<Str(path)>>, "task or model not recognized")
                      /\ UNCHANGED self
                 ELSE LET ops == _guess_ops_from_task(self.type[2], task[2])
                      IN  /\ Called("new", <<Str(path)>>, "ok")
                          /\ self' = [WithOps(self, ops) EXCEPT
                                        !.task = task,
                                        !.model = <<"model", ops[1][2], path>>]

\* YOLO.load(weights)
Load ==
    \E path \in WeightPaths :
        IF path \notin DOMAIN Ckpts
        THEN Called("load", <<Str(path)>>, "FileNotFoundError") /\ UNCHANGED self
        ELSE LET loaded == [self EXCEPT !.ckpt = <<"ckpt", path>>,
                                        !.task = Str(Ckpts[path])]
             IN  IF Ckpts[path] \notin DOMAIN MODEL_MAP
                 THEN Called("load", <<Str(path)>>, "KeyError") /\ self' = loaded
                 ELSE /\ Called("load", <<Str(path)>>, "ok")
                      /\ self' = [WithOps(loaded, _guess_ops_from_task(self.type[2], Ckpts[path]))
                                    EXCEPT !.model = <<"weights", path>>]

\* The task resume() goes on with after lines 157-163, for arguments that pass
\* them: the task argument when it is truthy, else the checkpoint's task.
ResumeTask(task, model) ==
    IF ~Falsy(task) THEN task ELSE Str(Ckpts[model[2]])

\* YOLO.resume(task=None, model=None)
Resume ==
    \E task \in TaskArgs, model \in ModelArgs :
        IF ~Falsy(task) /\ Lower(task[2]) \notin DOMAIN MODEL_MAP
        THEN Called("resume", <<task, model>>, "unrecognised task") /\ UNCHANGED self
        ELSE IF Falsy(task) /\ model = NoneV
        THEN Called("resume", <<task, model>>, "AttributeError") /\ UNCHANGED self
        ELSE IF Falsy(task) /\ model[2] \notin DOMAIN Ckpts
        THEN Called("resume", <<task, model>>, "FileNotFoundError") /\ UNCHANGED self
        ELSE LET t == Lower(ResumeTask(task, model)[2])
             IN  IF t \notin DOMAIN MODEL_MAP
                 THEN Called("resume", <<task, model>>, "KeyError") /\ UNCHANGED self
                 ELSE LET ops == _guess_ops_from_task(self.type[2], t)
                          ovr == [k \in {"task", "resume"} |->
                                    IF k = "task" THEN Str(t)
                                    ELSE IF Falsy(model) THEN TrueV ELSE model]
                      IN  /\ Called("resume", <<task, model>>, "ok")
                          /\ self' = [WithOps(self, ops) EXCEPT
                                        !.trainer = <<"trainer", ops[2], ovr, "trained">>]

\* The documents train(cfg=...) can read with yaml_load(check_yaml(...)).
TrainFiles ==
    [p \in {"train.yaml", "nodata.yaml"} |->
        CASE p = "train.yaml" ->
                [k \in {"task", "mode", "data", "seed"} |->
                    CASE k = "task" -> Str("classify")
                      [] k = "mode" -> Str("val")
                      [] k = "data" -> Str("voc.yaml")
                      [] k = "seed" -> IntV("7")]
          [] p = "nodata.yaml" -> [k \in {"seed"} |-> IntV("7")]]

\* A dict literal from a set of <<key, value>> pairs with distinct keys.
Dict(pairs) ==
    [k \in {kv[1] : kv \in pairs} |-> (CHOOSE kv \in pairs : kv[1] = k)[2]]

\* The keyword arguments train() is called with.
TrainKwargs ==
    {EmptyDict,
     Dict({<<"data", Str("coco128.yaml")>>}),
     Dict({<<"data", Str("coco128.yaml")>>, <<"seed", IntV("1")>>}),
     Dict({<<"data", Str("coco128.yaml")>>, <<"task", Str("segment")>>, <<"mode", Str("val")>>}),
     Dict({<<"seed", IntV("1")>>}),
     Dict({<<"cfg", Str("train.yaml")>>}),
     Dict({<<"cfg", Str("train.yaml")>>, <<"data", Str("coco128.yaml")>>, <<"seed", IntV("1")>>}),
     Dict({<<"cfg", Str("nodata.yaml")>>, <<"data", Str("coco128.yaml")>>}),
     Dict({<<"cfg", Str("missing.yaml")>>, <<"data", Str("coco128.yaml")>>}),
     Dict({<<"cfg", NoneV>>, <<"data", Str("coco128.yaml")>>})}

\* The keyword arguments val() is called with; its data argument is DataArg.
ValKwargs ==
    {EmptyDict, Dict({<<"seed", IntV("1")>>}), Dict({<<"shw", TrueV>>})}
DataArg == Str("coco128.yaml")

\* kwargs.get("cfg") is truthy
CfgGiven(kwargs) == "cfg" \in DOMAIN kwargs /\ ~Falsy(kwargs["cfg"])

\* Mutant: the cfg document is laid under the other keyword arguments instead
\* of replacing them.
TrainOverrides_KwargsOverDoc(kwargs, task) ==
    LET base == IF CfgGiven(kwargs)
                THEN Merged(TrainFiles[kwargs["cfg"][2]], Without(kwargs, {"cfg"}))
                ELSE kwargs
    IN  Put(Put(base, "task", task), "mode", Str("train"))

\* Lines 135-140 of train(): the overrides after task and mode are forced.
TrainOverrides(kwargs, task) ==
    LET base == IF CfgGiven(kwargs) THEN TrainFiles[kwargs["cfg"][2]] ELSE kwargs
    IN  Put(Put(base, "task", task), "mode", Str("train"))

\* Mutant: the second `not` left out, `not self.model and self.ckpt`.
TrainUninitialized_NotDropped(obj) == Falsy(obj.model) /\ ~Falsy(obj.ckpt)

\* not self.model and not self.ckpt
TrainUninitialized(obj) == Falsy(obj.model) /\ Falsy(obj.ckpt)

\* self.trainer.load_model(weights=self.ckpt) if self.ckpt else self.model
TrainerModel(obj) ==
    IF ~Falsy(obj.ckpt) THEN <<"load_model", obj.ckpt>> ELSE obj.model

\* YOLO.train(**kwargs)
Train ==
    \E kwargs \in TrainKwargs :
        IF TrainUninitialized(self)
        THEN Called("train", <<DictV(kwargs)>>, "model not initialized") /\ UNCHANGED self
        ELSE IF CfgGiven(kwargs) /\ kwargs["cfg"][2] \notin DOMAIN TrainFiles
        THEN Called("train", <<DictV(kwargs)>>, "FileNotFoundError") /\ UNCHANGED self
        ELSE LET ovr == TrainOverrides(kwargs, self.task)
             IN  IF "data" \notin DOMAIN ovr \/ Falsy(ovr["data"])
                 THEN Called("train", <<DictV(kwargs)>>, "dataset not provided")
                      /\ UNCHANGED self
                 ELSE IF self.TrainerClass = NoneV
                 THEN Called("train", <<DictV(kwargs)>>, "TypeError") /\ UNCHANGED self
                 ELSE /\ Called("train", <<DictV(kwargs)>>, "ok")
                      /\ self' = [self EXCEPT !.trainer =
                                    <<"trainer", self.TrainerClass, ovr, "trained",
                                      TrainerModel(self)>>]

\* not self.model
ValUninitialized(obj) == Falsy(obj.model)

\* YOLO.val(data, **kwargs); check_config_mismatch's log lines are not kept.
Val ==
    \E kwargs \in ValKwargs :
        /\ UNCHANGED self
        /\ IF ValUninitialized(self)
           THEN Called("val", <<DataArg, DictV(kwargs)>>, "model not initialized")
           ELSE IF Mismatched(default_config, kwargs) # {}
           THEN Called("val", <<DataArg, DictV(kwargs)>>, "SystemExit")
           ELSE IF self.ValidatorClass = NoneV
           THEN Called("val", <<DataArg, DictV(kwargs)>>, "TypeError")
           ELSE LET args == Put(Put(Merged(default_config, kwargs), "data", DataArg),
                                "task", self.task)
                IN  CalledWith("val", <<DataArg, DictV(kwargs)>>, "ok",
                               <<"validator", self.ValidatorClass, args, self.model, "called">>)

NextFacade ==
    \/ New
    \/ Load
    \/ Resume
    \/ Train
    \/ Val

SpecFacade == InitFacade /\ [][NextFacade]_vars

(***************************************************************************)
(* Specification SpecHead: one call of _guess_task_from_head(head), for    *)
(* every head drawn from Heads.                                            *)
(***************************************************************************)
\* str.upper() on one character, used to write the heads below.
UpperChar(c) ==
    CASE c = "a" -> "A" [] c = "b" -> "B" [] c = "c" -> "C"
      [] c = "d" -> "D" [] c = "e" -> "E" [] c = "f" -> "F"
      [] c = "g" -> "G" [] c = "h" -> "H" [] c = "i" -> "I"
      [] c = "j" -> "J" [] c = "k" -> "K" [] c = "l" -> "L"
      [] c = "m" -> "M" [] c = "n" -> "N" [] c = "o" -> "O"
      [] c = "p" -> "P" [] c = "q" -> "Q" [] c = "r" -> "R"
      [] c = "s" -> "S" [] c = "t" -> "T" [] c = "u" -> "U"
      [] c = "v" -> "V" [] c = "w" -> "W" [] c = "x" -> "X"
      [] c = "y" -> "Y" [] c = "z" -> "Z"
      [] OTHER -> c

\* Every casing of the string with characters cs.
Casings(cs) ==
    {[p \in DOMAIN cs |-> IF p \in U THEN UpperChar(cs[p]) ELSE cs[p]] :
        U \in SUBSET (DOMAIN cs)}

\* The three synonym lists of lines 172-176.
ClassifyHeads == {Chars("classify"), Chars("classifier"), Chars("cls"), Chars("fc")}
DetectHeads == {Chars("detect")}
SegmentHeads == {Chars("segment")}

\* Heads that are no casing of a synonym: other layer names, prefixes and
\* extensions of synonyms, a synonym with a blank, a digit or a dash.
OtherHeads ==
    {<<>>, <<"C", "o", "n", "v">>, <<"p", "o", "s", "e">>, <<"c", "l">>, <<"f">>,
     <<"f", "c", "s">>, <<"c", "l", "s", "f", "c">>, <<"d", "e", "t", "e", "c">>,
     <<"D", "e", "t", "e", "c", "t", "s">>, <<"d", "e", "t", "e", "c", "t", " ">>,
     <<" ", "c", "l", "s">>, <<"s", "e", "g">>, <<"S", "E", "G", "M", "E", "N", "T", "S">>,
     <<"c", "l", "a", "s", "s", "i", "f">>, <<"c", "l", "a", "s", "s", "i", "f", "i", "e">>,
     <<"c", "1", "s">>, <<"f", "-", "c">>, <<"s", "e", "g", "m", "e", "n", "t", "_">>}

Heads ==
    UNION {Casings(w) : w \in ClassifyHeads \cup DetectHeads \cup SegmentHeads}
        \cup OtherHeads

InitHead ==
    /\ DispatchIdle
    /\ MergeIdle
    /\ FacadeIdle
    /\ SolutionsIdle
    /\ diag = <<>>
    /\ gh_head \in Heads
    /\ gh_task = NoneV
    /\ gh_pc = "call"

\* Lines 171-183 with a task found: return task
GuessReturn ==
    /\ gh_pc = "call"
    /\ _guess_task_from_head(gh_head) # NoneV
    /\ gh_task' = _guess_task_from_head(gh_head)
    /\ gh_pc' = "returned"
    /\ UNCHANGED <<gh_head, solutionsVars, dispatchVars, diag, mergeVars, facadeVars>>

\* Lines 179-181: if not task: raise Exception("task or model not recognized! ...")
GuessRaise ==
    /\ gh_pc = "call"
    /\ _guess_task_from_head(gh_head) = NoneV
    /\ gh_pc' = "raised"
    /\ UNCHANGED <<gh_head, gh_task, solutionsVars, dispatchVars, diag, mergeVars, facadeVars>>

NextHead ==
    \/ GuessReturn
    \/ GuessRaise

SpecHead == InitHead /\ [][NextHead]_vars

(***************************************************************************)
(* Specification SpecSolutions: calls of solutions_yaml_load(kwargs) in    *)
(* one process, each with keyword arguments drawn from SolutionsKwargs.    *)
(* cfg2dict and check_dict_alignment live in ultralytics.cfg, outside the  *)
(* files modelled here: cfg2dict gives the document's mapping, and         *)
(* check_dict_alignment is the key check of the configuration layer: it    *)
(* raises when custom has a key that base lacks and writes to neither.     *)
(***************************************************************************)
\* Bound: the number of calls of solutions_yaml_load.
MaxLoads == 2

\* The documents solutions/cfg/default.yaml can hold.
SolutionsDefaultDocs ==
    {[k \in {"model", "show", "line_width", "region"} |->
        CASE k = "model" -> Str("yolo11n.pt")
          [] k = "show" -> TrueV
          [] k = "line_width" -> IntV("2")
          [] k = "region" -> NoneV],
     [k \in {"model", "show", "line_width", "region"} |->
        CASE k = "model" -> NoneV
          [] k = "show" -> FalseV
          [] k = "line_width" -> IntV("4")
          [] k = "region" -> NoneV]}

\* The keyword arguments: any of show, line_width and the misspelt shw.
SolutionsKwargValues(k) ==
    CASE k = "show" -> {TrueV, FalseV}
      [] k = "line_width" -> {IntV("2"), IntV("4")}
      [] k = "shw" -> {TrueV}

SolutionsKwargs ==
    UNION {{kw \in [K -> {TrueV, FalseV, IntV("2"), IntV("4")}] :
                \A k \in K : kw[k] \in SolutionsKwargValues(k)} :
           K \in SUBSET {"show", "line_width", "shw"}}

\* cfg2dict(path): the mapping of the document at path.
cfg2dict(doc) == doc

\* check_dict_alignment(base, custom): TRUE when it returns, FALSE when it
\* raises SyntaxError for a key of custom that base lacks.
check_dict_alignment(base, custom) == Mismatched(base, custom) = {}

\* Mutant: the keyword arguments are laid over the defaults before returning.
solutions_yaml_load_Applied(doc, kwargs) ==
    LET args == cfg2dict(doc)
    IN  IF check_dict_alignment(args, kwargs)
        THEN DictV(Merged(args, kwargs))
        ELSE <<"raise", "SyntaxError">>

\* solutions_yaml_load(kwargs), with doc the document at cfg/default.yaml:
\* the mapping it returns, or the error it raises.
solutions_yaml_load(doc, kwargs) ==
    LET args == cfg2dict(doc)
    IN  IF check_dict_alignment(args, kwargs)
        THEN DictV(args)
        ELSE <<"raise", "SyntaxError">>

InitSolutions ==
    /\ DispatchIdle
    /\ MergeIdle
    /\ FacadeIdle
    /\ HeadIdle
    /\ diag = <<>>
    /\ sl_defaults \in SolutionsDefaultDocs
    /\ sl_calls = <<>>

\* One call that returns the mapping.
SolutionsLoadReturn ==
    \E kwargs \in SolutionsKwargs :
        /\ Len(sl_calls) < MaxLoads
        /\ solutions_yaml_load(sl_defaults, kwargs)[1] = "dict"
        /\ sl_calls' = Append(sl_calls, [kwargs |-> kwargs,
                                         result |-> solutions_yaml_load(sl_defaults, kwargs)])
        /\ UNCHANGED <<sl_defaults, headVars, dispatchVars, diag, mergeVars, facadeVars>>

\* One call that raises.
SolutionsLoadRaise ==
    \E kwargs \in SolutionsKwargs :
        /\ Len(sl_calls) < MaxLoads
        /\ solutions_yaml_load(sl_defaults, kwargs)[1] = "raise"
        /\ sl_calls' = Append(sl_calls, [kwargs |-> kwargs,
                                         result |-> solutions_yaml_load(sl_defaults, kwargs)])
        /\ UNCHANGED <<sl_defaults, headVars, dispatchVars, diag, mergeVars, facadeVars>>

NextSolutions ==
    \/ SolutionsLoadReturn
    \/ SolutionsLoadRaise

SpecSolutions == InitSolutions /\ [][NextSolutions]_vars

(***************************************************************************)
(* Properties of the dispatcher (specification Spec).                      *)
(***************************************************************************)
\* The current token is a bare token that is no task, mode or special command.
BareOther ==
    /\ i >= 1
    /\ Len(a) = 1
    /\ a[1] \notin tasks \cup modes \cup special_modes

\* C1: a dispatch that returns without a special command and without an error
\* has invoked exactly one operation, and invoked it after the last token was
\* classified, whatever the number of tokens.
C1_ExactlyOneOperationAfterLastToken ==
    (pc = "done" /\ outcome.kind = "returned" /\ special = "None")
        => (nInvoke = 1 /\ invokedAt = nargs)

\* C2: when a special command has run, the dispatch has performed no
\* get_config and invoked no operation, before or after the command.
C2_SpecialCommandWithoutMergeOrOperation ==
    special # "None" => (nMerge = 0 /\ nInvoke = 0)

\* C3: a dispatch that ends in an error (a syntax error, or the termination for
\* an unknown override key) has invoked no operation before it.
C3_ErrorMeansNothingInvoked ==
    outcome.kind \in {"SyntaxError", "SystemExit"} => nInvoke = 0

\* C7: right after a cfg=<path> token is processed the overrides are exactly the
\* loaded document without its cfg key, whatever was accumulated before; any
\* other token that sets an override adds its one key on top of the set.
C7_CfgReplacesOverrides ==
    (pc = "merge" /\ i >= 1) =>
        IF Len(a) >= 2 /\ a[1] = "cfg"
        THEN LET doc == Files[a[Len(a)]]
             IN  /\ DOMAIN overrides = (DOMAIN doc) \ {"cfg"}
                 /\ \A k \in DOMAIN overrides : overrides[k] = doc[k]
        ELSE \E k \in DOMAIN overrides :
                /\ DOMAIN overrides = (DOMAIN prev) \cup {k}
                /\ \A j \in (DOMAIN prev) \ {k} : overrides[j] = prev[j]

\* C7 witness: a cfg token was processed after a task and a flag had been set,
\* and neither is left.
C7_Witness ==
    /\ pc = "merge"
    /\ a = <<"cfg", "custom.yaml">>
    /\ {"task", "show"} \subseteq DOMAIN prev
    /\ prev["task"] = Str("detect")
    /\ "show" \notin DOMAIN overrides
    /\ overrides["task"] = Str("segment")

\* C8: in a dispatch whose merged task is not detect/segment/classify or whose
\* merged mode is not train/val/predict/export, the dispatch fails with a syntax
\* error and no operation is invoked; otherwise the operation invoked is the
\* exporter for mode export and the task module's routine of the mode's name.
C8_OperationDeterminedByTaskAndMode ==
    /\ (pc \in {"func", "invoke"} => cfg[2]["task"] \in {Str(t) : t \in tasks})
    /\ (pc = "invoke" =>
            /\ cfg[2]["mode"] \in {Str(m) : m \in modes}
            /\ func = IF cfg[2]["mode"] = Str("export")
                      THEN <<"yolo.engine.exporter", "export">>
                      ELSE <<cfg[2]["task"][2], cfg[2]["mode"][2]>>)
    /\ (pc = "done" /\ outcome.kind = "SyntaxError"
            /\ outcome.msg \in {"task is invalid", "mode is invalid"}
        => nInvoke = 0)

\* C9: a bare token that is a defaults key whose default is exactly the boolean
\* False sets overrides[key] = True, and the configuration merged from it and
\* handed to the operation has key = True; a bare key with another falsy default
\* (None, 0, '') sets nothing and ends the dispatch with a syntax error.
C9_BareFlagSetsTrue ==
    (BareOther /\ a[1] \in DOMAIN defaults) =>
        IF defaults[a[1]] = FalseV
        THEN /\ a[1] \in DOMAIN overrides
             /\ overrides[a[1]] = TrueV
             /\ outcome.kind \notin {"SyntaxError", "SystemExit"}
             /\ (pc \in {"module", "func", "invoke"} => cfg[2][a[1]] = TrueV)
        ELSE /\ pc = "done"
             /\ outcome.kind = "SyntaxError"
             /\ overrides = prev

\* C9 witness: show, whose default is False, reaches the operation as True.
C9_Witness ==
    /\ pc = "invoke"
    /\ a = <<"show">>
    /\ defaults["show"] = FalseV
    /\ cfg[2]["show"] = TrueV

\* C10: a bare token that is no task, mode or special command ends the dispatch
\* with a syntax error: "a value is required" when it is a defaults key whose
\* default is not the boolean False, "unrecognized" when it is no defaults key;
\* the token leaves the overrides as they were and no get_config or operation
\* follows it (every earlier token had its one merge and one operation).
C10_BareKeySyntaxErrors ==
    (BareOther /\ ~(a[1] \in DOMAIN defaults /\ defaults[a[1]] = FalseV)) =>
        /\ pc = "done"
        /\ outcome.kind = "SyntaxError"
        /\ outcome.msg = IF a[1] \in DOMAIN defaults THEN MissingValueMsg
                          ELSE UnrecognizedMsg
        /\ overrides = prev
        /\ nMerge = i - 1
        /\ nInvoke = i - 1

\* C10 witness: data, whose default is None, is given bare after an earlier token
\* set an override.
C10_Witness ==
    /\ BareOther
    /\ a = <<"data">>
    /\ defaults["data"] = NoneV
    /\ outcome.msg = MissingValueMsg
    /\ prev # EmptyDict

\* C15: no step of a dispatch changes the defaults loaded at its start: taking
\* a token, merging, and looking up the module and the operation leave its keys
\* and values as they are; tokens change the override set only, and the merge
\* writes to neither the defaults nor the override set.
C15_DefaultsNeverModified ==
    [][/\ defaults' = defaults
       /\ (pc = "merge" => overrides' = overrides)]_vars

\* C15 witness: a dispatch has merged overrides that differ from the defaults,
\* gone on to invoke the operation and finished.
C15_Witness ==
    /\ pc = "done"
    /\ outcome.kind = "returned"
    /\ nInvoke >= 1
    /\ cfg # NoneV
    /\ \E k \in DOMAIN overrides : overrides[k] # defaults[k]
    /\ defaults \in DefaultDocs

\* C18: the step that takes a token ends in one of three ways: the override set
\* is updated and the dispatch goes on, a special command has run and the
\* dispatch returns, or a SyntaxError carrying the help text is raised; no
\* other error comes out of classifying a token, whatever the token.
C18_TokenClassificationTotal ==
    [][(i' = i + 1) =>
        \/ (pc' = "merge" /\ outcome'.kind = "running")
        \/ (special' # "None" /\ outcome'.kind = "returned")
        \/ (outcome'.kind = "SyntaxError" /\ outcome'.help)
      ]_vars

(***************************************************************************)
(* Properties of get_config (specification SpecMerge).                     *)
(***************************************************************************)
\* get_config has checked its arguments D and O, both mappings.
MergeChecked == gc_pc \in {"merge", "returned", "SystemExit"}

\* C5: get_config(D, O) succeeds iff every key of O is a key of D; otherwise
\* it ends the process without a merged configuration, after one diagnostic for
\* each offending key and for no other key, each with at most 3 suggestions,
\* all keys of D.
C5_MergeSucceedsIffKeysKnown ==
    /\ (IsDict(gc_overrides) => gc_pc \in {"enter", "check", "merge", "returned", "SystemExit"})
    /\ (MergeChecked =>
            LET D == gc_config[2]
                O == gc_overrides[2]
                offending == (DOMAIN O) \ (DOMAIN D)
            IN  /\ (gc_pc \in {"merge", "returned"}) <=> (DOMAIN O \subseteq DOMAIN D)
                /\ gc_pc = "SystemExit" => gc_merged = NoneV
                /\ Len(diag) = Cardinality(offending)
                /\ {diag[p].option : p \in DOMAIN diag} = offending
                /\ \A p \in DOMAIN diag :
                        /\ Len(diag[p].similar) <= 3
                        /\ \A q \in DOMAIN diag[p].similar :
                                diag[p].similar[q] \in DOMAIN D)

\* C5 witness: two offending keys, one of them with more than three close keys
\* in D, of which three are suggested.
C5_Witness ==
    /\ gc_pc = "SystemExit"
    /\ Len(diag) = 2
    /\ {"save", "save_txt", "save_conf", "save_crop", "save_json"} \subseteq DOMAIN gc_config[2]
    /\ \E p \in DOMAIN diag :
            diag[p].option = "save_cnf" /\ Len(diag[p].similar) = 3

\* C6: when get_config(D, O) succeeds the merged configuration has exactly the
\* keys of D, and each key k has the value O[k] if k is a key of O and D[k]
\* otherwise; a nested value of O replaces the one of D as it is.
C6_MergedIsShallowOverlay ==
    gc_pc = "returned" =>
        LET D == gc_config[2]
            O == gc_overrides[2]
            m == gc_merged[2]
        IN  /\ gc_merged[1] = "dict"
            /\ DOMAIN m = DOMAIN D
            /\ \A k \in DOMAIN D : m[k] = IF k \in DOMAIN O THEN O[k] ELSE D[k]

\* C6 witness: a nested default is overridden by a smaller nested value, another
\* default is kept.
C6_Witness ==
    /\ gc_pc = "returned"
    /\ {"show", "save_txt"} \subseteq DOMAIN gc_config[2]
    /\ DOMAIN gc_overrides[2] = {"show"}
    /\ gc_overrides[2]["show"] = DictV([n \in {"labels"} |-> FalseV])
    /\ gc_merged[2]["show"] = DictV([n \in {"labels"} |-> FalseV])
    /\ gc_merged[2]["save_txt"] = FalseV

(***************************************************************************)
(* Properties of the facade (specification SpecFacade).                    *)
(***************************************************************************)
\* The checkpoints whose recorded task is a task of MODEL_MAP.
ValidCkpts == {p \in DOMAIN Ckpts : Ckpts[p] \in DOMAIN MODEL_MAP}

\* C4: resume(task, model) with a valid checkpoint path as model does not fail
\* and uses the checkpoint's train_args.task, whatever the task argument is: the
\* trainer, validator and predictor classes are those of the checkpoint's task
\* and the trainer is constructed with that task.
C4_ResumeCheckpointTakesPrecedence ==
    (last.method = "resume" /\ last.args[2] \in {Str(p) : p \in ValidCkpts}) =>
        LET t == Ckpts[last.args[2][2]]
        IN  /\ last.result = "ok"
            /\ self.TrainerClass = <<"yolo", "v8", t, MODEL_MAP[t][2][4]>>
            /\ self.ValidatorClass = <<"yolo", "v8", t, MODEL_MAP[t][3][4]>>
            /\ self.PredictorClass = <<"yolo", "v8", t, MODEL_MAP[t][4][4]>>
            /\ self.trainer[2] = self.TrainerClass
            /\ self.trainer[3]["task"] = Str(t)

\* C11: a call of train made while neither a model nor a checkpoint is bound,
\* and a call of val made while no model is bound, ends with the
\* not-initialized error, constructs no trainer and no validator, and leaves
\* every field of the object as it was.
C11_NoTrainOrValWhileUnbound ==
    [][(ncalls' = ncalls + 1) =>
        /\ (last'.method = "train" /\ self.model = NoneV /\ self.ckpt = NoneV) =>
                (last'.result = "model not initialized" /\ self' = self /\ validator' = NoneV)
        /\ (last'.method = "val" /\ self.model = NoneV) =>
                (last'.result = "model not initialized" /\ self' = self /\ validator' = NoneV)
      ]_vars

\* C11 witness: train fails so after a resume that bound a trainer but no model,
\* with the trainer of the resume still in place.
C11_Witness ==
    /\ last.method = "train"
    /\ last.result = "model not initialized"
    /\ self.trainer # NoneV
    /\ self.model = NoneV /\ self.ckpt = NoneV

\* A train call that got past the not-initialized test and the reading of cfg.
TrainReachedDataTest ==
    /\ last.method = "train"
    /\ last.result \notin {"model not initialized", "FileNotFoundError"}

\* The configuration of a train call: its overrides merged onto the defaults.
TrainMerged == Merged(default_config, TrainOverrides(last.args[1][2], self.task))

\* C12: train on an initialized object fails with the missing-dataset error when
\* the overrides merged onto the defaults have no data value, and then the
\* object holds no trainer built from these overrides; when the merged
\* configuration has a data value, from the overrides or from the defaults,
\* the missing-dataset error is not raised.
C12_MissingDatasetIffNoDataAfterMerge ==
    TrainReachedDataTest =>
        IF "data" \notin DOMAIN TrainMerged \/ Falsy(TrainMerged["data"])
        THEN /\ last.result = "dataset not provided"
             /\ (self.trainer = NoneV
                    \/ self.trainer[3] # TrainOverrides(last.args[1][2], self.task))
        ELSE last.result # "dataset not provided"

\* The task strings that are a key of MODEL_MAP once lowered.
RecognizedTask(v) == v[1] = "str" /\ Lower(v[2]) \in DOMAIN MODEL_MAP

\* C13: resume called without a checkpoint path fails with the unrecognized-task
\* error and leaves the object as it was, trainer included, whenever the task
\* argument is not a recognized task (compared lowered), also when it is absent;
\* with a recognized task it binds the trainer of that task, constructed with
\* that task and resume enabled.
C13_ResumeWithoutCheckpointNeedsTask ==
    [][(ncalls' = ncalls + 1 /\ last'.method = "resume" /\ last'.args[2] = NoneV) =>
        IF RecognizedTask(last'.args[1])
        THEN LET t == Lower(last'.args[1][2])
             IN  /\ last'.result = "ok"
                 /\ self'.TrainerClass = <<"yolo", "v8", t, MODEL_MAP[t][2][4]>>
                 /\ self'.trainer = <<"trainer", self'.TrainerClass,
                                       [k \in {"task", "resume"} |->
                                            IF k = "task" THEN Str(t) ELSE TrueV],
                                       "trained">>
        ELSE last'.result = "unrecognised task" /\ self' = self
      ]_vars

(***************************************************************************)
(* Properties of _guess_task_from_head (specification SpecHead).           *)
(***************************************************************************)
\* head is the word with characters w in some casing: each character of head
\* is the character of w at its place or that character's capital.
IsCasingOf(head, w) ==
    /\ Len(head) = Len(w)
    /\ \A p \in DOMAIN w : head[p] \in {w[p], UpperChar(w[p])}

\* C14: a finished call returned classify for every casing of classify,
\* classifier, cls or fc, detect for every casing of detect, segment for every
\* casing of segment, and raised for every other head; no head gets two results.
C14_GuessTaskFromHeadCaseInsensitiveTotal ==
    gh_pc # "call" =>
        /\ (\E w \in ClassifyHeads : IsCasingOf(gh_head, w)) =>
                (gh_pc = "returned" /\ gh_task = Str("classify"))
        /\ (\E w \in DetectHeads : IsCasingOf(gh_head, w)) =>
                (gh_pc = "returned" /\ gh_task = Str("detect"))
        /\ (\E w \in SegmentHeads : IsCasingOf(gh_head, w)) =>
                (gh_pc = "returned" /\ gh_task = Str("segment"))
        /\ (\A w \in ClassifyHeads \cup DetectHeads \cup SegmentHeads :
                ~IsCasingOf(gh_head, w)) =>
                (gh_pc = "raised" /\ gh_task = NoneV)

\* C14 witness: the mixed-case head 'ClassiFIER' was given and classify returned.
C14_Witness ==
    /\ gh_head = <<"C", "l", "a", "s", "s", "i", "F", "I", "E", "R">>
    /\ gh_pc = "returned"
    /\ gh_task = Str("classify")

\* C16: a train call that constructed its trainer handed it the model bound by
\* the most recent successful new or load: the model new(cfg) constructed when
\* that was a new, and weights loaded from the checkpoint of load(weights) when
\* that was a load.
C16_TrainUsesMostRecentBinding ==
    (last.method = "train" /\ last.result = "ok" /\ self.model # NoneV) =>
        IF self.model[1] = "model"
        THEN self.trainer[5] = self.model
        ELSE self.trainer[5] = <<"load_model", <<"ckpt", self.model[2]>>>>

\* C17: whenever the task field of the object is set, it is a task of MODEL_MAP
\* and the four bound classes are the entries of MODEL_MAP for that task; a
\* validator that val constructed is of the class of the task it was given.
C17_ClassesMatchTask ==
    /\ self.task # NoneV =>
            /\ self.task[2] \in DOMAIN MODEL_MAP
            /\ self.ModelClass = MODEL_MAP[self.task[2]][1]
            /\ self.TrainerClass =
                    <<"yolo", "v8", self.task[2], MODEL_MAP[self.task[2]][2][4]>>
            /\ self.ValidatorClass =
                    <<"yolo", "v8", self.task[2], MODEL_MAP[self.task[2]][3][4]>>
            /\ self.PredictorClass =
                    <<"yolo", "v8", self.task[2], MODEL_MAP[self.task[2]][4][4]>>
    /\ validator # NoneV => validator[2][3] = validator[3]["task"][2]

\* C19: the overrides a train call handed to its trainer are the cfg document
\* when a cfg was given, and the keyword arguments when none was, in both
\* cases with task set to the task of the object and mode set to train: with a
\* cfg, no other keyword argument is in them, and the task and mode written in
\* the document are overwritten.
C19_TrainCfgReplacesKwargs ==
    (last.method = "train" /\ last.result = "ok") =>
        LET kwargs == last.args[1][2]
            given == "cfg" \in DOMAIN kwargs /\ kwargs["cfg"] # NoneV
            base == IF given THEN TrainFiles[kwargs["cfg"][2]] ELSE kwargs
        IN  self.trainer[3] =
                [k \in DOMAIN base \cup {"task", "mode"} |->
                    IF k = "task" THEN self.task
                    ELSE IF k = "mode" THEN Str("train")
                    ELSE base[k]]

\* C19 witness: train(cfg='train.yaml', data='coco128.yaml', seed=1) built a
\* trainer whose data and seed are the document's.
C19_Witness ==
    /\ last.method = "train"
    /\ last.result = "ok"
    /\ DOMAIN last.args[1][2] = {"cfg", "data", "seed"}
    /\ self.trainer[3]["data"] = Str("voc.yaml")
    /\ self.trainer[3]["seed"] = IntV("7")
    /\ self.trainer[3]["task"] = self.task
    /\ self.trainer[3]["task"] # Str("classify")

====
